---- MODULE Spec2Model ----
(***************************************************************************)
(* Model of the SLUUG/STLLUG marketing content generation pipeline.        *)
(*                                                                         *)
(* The repository holds two revisions of the driver script: the            *)
(* template-driven one (src/unnamed/part_002 lines 1-594), where the       *)
(* meeting date and type come from the JSON record, and the                *)
(* file-name-driven one (src/unnamed/part_002 lines 596-1191), where they  *)
(* are parsed from the input file name.  The variable `mode` selects the   *)
(* revision; definitions of the file-name-driven revision that differ      *)
(* from the template-driven one carry the suffix FN.                       *)
(*                                                                         *)
(* Strings the program transforms are sequences of one-character strings.  *)
(* An optional value (a field that may be undefined) is a set with at most *)
(* one element.                                                            *)
(***************************************************************************)
EXTENDS Integers, Sequences, FiniteSets, TLC

\* ------------------------------------------------------------------ bounds
MaxPres == 2        \* most presentations in an input record
MaxTagLen == 4      \* longest tag string fed to tagTool on its own
MaxPostLen == 3     \* longest post string fed to addLinkToTweets on its own

\* ------------------------------------------------------- optional values
None == {}
Some(v) == {v}
IsSome(o) == o # {}
Val(o) == CHOOSE v \in o : TRUE

\* ---------------------------------------------------------------- strings
Space == " "
Hyphen == "-"
TagChars == {"a", "A", Space, Hyphen}
PostChars == {"a", Space}

RECURSIVE StrsUpTo(_, _)
StrsUpTo(chars, n) ==
    IF n = 0 THEN {<<>>}
    ELSE LET shorter == StrsUpTo(chars, n - 1)
         IN  shorter \cup {Append(s, c) : s \in {t \in shorter : Len(t) = n - 1}, c \in chars}

IsWhitespace(c) == c = Space

\* String.prototype.toLowerCase, character by character
LowerChar(c) == IF c = "A" THEN "a" ELSE IF c = "S" THEN "s" ELSE IF c = "L" THEN "l"
                ELSE IF c = "U" THEN "u" ELSE IF c = "G" THEN "g" ELSE IF c = "T" THEN "t"
                ELSE c
toLowerCase(s) == [i \in 1..Len(s) |-> LowerChar(s[i])]

RECURSIVE trimStart(_)
trimStart(s) ==
    IF s # <<>> /\ IsWhitespace(Head(s)) THEN trimStart(Tail(s)) ELSE s

RECURSIVE trimEnd(_)
trimEnd(s) ==
    IF s # <<>> /\ IsWhitespace(s[Len(s)]) THEN trimEnd(SubSeq(s, 1, Len(s) - 1)) ELSE s

\* String.prototype.replace with a string pattern: only the FIRST occurrence
RECURSIVE replace(_, _, _)
replace(s, from, to) ==
    IF s = <<>> THEN <<>>
    ELSE IF Head(s) = from THEN <<to>> \o Tail(s)
    ELSE <<Head(s)>> \o replace(Tail(s), from, to)

\* String.prototype.replaceAll: every occurrence
replaceAll(s, from, to) == [i \in 1..Len(s) |-> IF s[i] = from THEN to ELSE s[i]]

\* the text a template literal gives for an undefined value
UndefinedText == <<"u", "n", "d", "e", "f", "i", "n", "e", "d">>

\* `${v}` for an optional string
Interpolate(o) == IF IsSome(o) THEN Val(o) ELSE UndefinedText

\* JavaScript truthiness of an optional string
Truthy(o) == IsSome(o) /\ Val(o) # <<>>

\* ------------------------------------------------------------ tagTool
\* template-driven revision: trim, replace the first space, lower-case
tagToolOne(tag) == toLowerCase(replace(trimEnd(trimStart(tag)), Space, Hyphen))
tagTool(tags) == [i \in 1..Len(tags) |-> tagToolOne(tags[i])]

\* file-name-driven revision: no trim
tagToolOneFN(tag) == toLowerCase(replace(tag, Space, Hyphen))
tagToolFN(tags) == [i \in 1..Len(tags) |-> tagToolOneFN(tags[i])]

\* ------------------------------------------------------ addLinkToTweets
\* the link put in front of the tweet
addLinkToTweetsInFront(tweets, meetupUrl) ==
    [i \in 1..Len(tweets) |-> trimEnd(Interpolate(meetupUrl) \o <<Space>> \o tweets[i])]

\* template-driven revision, applied to the list of tweets of a presentation
addLinkToTweets(tweets, meetupUrl) ==
    IF Truthy(meetupUrl)
    THEN [i \in 1..Len(tweets) |-> trimEnd(tweets[i] \o <<Space>> \o Val(meetupUrl))]
    ELSE [i \in 1..Len(tweets) |-> trimEnd(tweets[i])]

\* file-name-driven revision: the link is interpolated unconditionally
addLinkToTweetsFN(tweets, meetupUrl) ==
    [i \in 1..Len(tweets) |-> trimEnd(tweets[i] \o <<Space>> \o Interpolate(meetupUrl))]

\* ------------------------------------------------------------ text constants
DateText == <<"2", "0", "2", "4", "-", "0", "2", "-", "1", "4">>
SLUUG == <<"S", "L", "U", "U", "G">>
STLLUG == <<"S", "T", "L", "L", "U", "G">>
SluugJson == <<"s", "l", "u", "u", "g", ".", "j", "s", "o", "n">>
StllugJson == <<"s", "t", "l", "l", "u", "g", ".", "j", "s", "o", "n">>
OtherJson == <<"o", ".", "j", "s", "o", "n">>
Underscore == <<"_">>
DotJson == <<".", "j", "s", "o", "n">>
DotPng == <<".", "p", "n", "g">>
DotSlash == <<".", "/">>
Url == <<"u">>

Digits == {"0", "1", "2", "3", "4", "5", "6", "7", "8", "9"}
DigitVal(c) == CHOOSE n \in 0..9 : <<"0", "1", "2", "3", "4", "5", "6", "7", "8", "9">>[n + 1] = c

\* String.prototype.endsWith
endsWith(s, suffix) ==
    Len(s) >= Len(suffix) /\ SubSeq(s, Len(s) - Len(suffix) + 1, Len(s)) = suffix

\* String.prototype.slice(0, n)
slice(s, n) == SubSeq(s, 1, IF Len(s) < n THEN Len(s) ELSE n)

\* the date texts Date.parse accepts among the file names of FileNames:
\* YYYY-MM-DD with a month 01..12 and a day 01..31
IsDateText(s) ==
    /\ Len(s) = 10
    /\ s[5] = Hyphen /\ s[8] = Hyphen
    /\ \A i \in {1, 2, 3, 4, 6, 7, 9, 10} : s[i] \in Digits
    /\ 10 * DigitVal(s[6]) + DigitVal(s[7]) \in 1..12
    /\ 10 * DigitVal(s[9]) + DigitVal(s[10]) \in 1..31

\* file-name-driven revision: the date is the first 10 characters of the name;
\* the Date is later rendered with toISOString().slice(0, 10), which gives the
\* same text back for a date-only ISO text
parseMeetingDateFromFileName(fileName) ==
    IF IsDateText(slice(fileName, 10)) THEN Some(slice(fileName, 10)) ELSE None

\* a parse that takes every other name as STLLUG
parseMeetingTypeOrDefault(fileName) ==
    IF endsWith(fileName, SluugJson) THEN Some(SLUUG) ELSE Some(STLLUG)

parseMeetingTypeFromFileName(fileName) ==
    IF endsWith(fileName, SluugJson) THEN Some(SLUUG)
    ELSE IF endsWith(fileName, StllugJson) THEN Some(STLLUG)
    ELSE None

\* the input file names tried
FileNames == { DateText \o Underscore \o SluugJson,
               DateText \o Underscore \o StllugJson,
               DateText \o Underscore \o OtherJson,
               <<"m">> \o Underscore \o SluugJson }

\* ------------------------------------------------------------ record schema
\* The repository holds three revisions of the record schema:
\*   "fileName"  src/unnamed/part_003 lines 20-34: no meetingDate, no
\*               meetingType (the file-name-driven script takes them from the
\*               file name);
\*   "models"    src/src/models.ts lines 26-45: meetingDate is
\*               z.coerce.date().optional(), meetingType is optional;
\*   "string"    src/unnamed/part_003 lines 169-189: meetingDate is z.string(),
\*               meetingType is required, the keys are tweet and youtubeTitle.
\* The template-driven script passes meetingDate on as a string and reads
\* presentation.tweet: it runs on the "string" revision.
SchemaRevs == {"fileName", "models", "string"}

\* JSON values of the meetingDate key: a string, a number, null
JStr(s) == [str |-> s]
JNum(n) == [num |-> n]
JNull == [nul |-> TRUE]

SlashDate == <<"0", "2", "/", "1", "4", "/", "2", "0", "2", "4">>
BadDate == <<"x">>

\* MM/DD/YYYY, which the Date constructor of Node.js also parses
IsSlashDate(s) ==
    /\ Len(s) = 10
    /\ s[3] = "/" /\ s[6] = "/"
    /\ \A i \in {1, 2, 4, 5, 7, 8, 9, 10} : s[i] \in Digits
    /\ 10 * DigitVal(s[1]) + DigitVal(s[2]) \in 1..12
    /\ 10 * DigitVal(s[4]) + DigitVal(s[5]) \in 1..31

\* new Date(v) is a valid date: the texts above, any number of milliseconds
\* tried here, and null (new Date(null) is the epoch)
ValidDateArg(v) ==
    IF "str" \in DOMAIN v THEN IsDateText(v.str) \/ IsSlashDate(v.str) ELSE TRUE

\* z.coerce.date(): the Date built from the value, none when it is invalid;
\* a Date is written as the value it was constructed from
coerceDate(v) == IF ValidDateArg(v) THEN Some([date |-> v]) ELSE None

\* a link of `references`
Link == [url |-> Url, linkText |-> None]

\* a presentation of the input: the required fields, and the optional ones
\* absent.  The key of the social posts is `tweets` or `tweet`.
Presentation(i) ==
    [title |-> i, presenterNames |-> <<i>>, abstract |-> Some(i),
     references |-> None, tags |-> None, tweets |-> None, tweet |-> None]

InputTags == << <<"x">> >>

\* the presentations of the input files: the first one comes with references
\* and with tags already filled in
InputPresentation(i) ==
    IF i = 1
    THEN [Presentation(1) EXCEPT !.references = Some(<<Link>>), !.tags = Some(InputTags)]
    ELSE Presentation(i)

\* presentations of the input JSON: missing, or an array of 0..MaxPres items
PresentationInputs ==
    {None} \cup {Some([i \in 1..n |-> InputPresentation(i)]) : n \in 0..MaxPres}

\* z.array(presentationSchema).min(1): at least this many presentations
MinPresentations == 1

\* a schema without .min(1)
meetingSchemaNoMin(json) == IsSome(json.presentations)

\* meetingSchema.parse succeeds: `presentations` is required and has >= 1 item
meetingSchema(json) ==
    /\ IsSome(json.presentations)
    /\ Len(Val(json.presentations)) >= MinPresentations

\* a presentation schema that bounds the generated fields
presentationSchemaBounded(p) ==
    /\ IsSome(p.abstract)
    /\ \A t \in p.tags : Len(t) <= 3
    /\ \A t \in p.tweets \cup p.tweet : Len(t) = 3

\* presentationSchema accepts the presentation: the required fields are
\* there; tags and tweets are optional arrays of strings of any length
presentationSchema(p) == IsSome(p.abstract)

\* a meetingDate that has to be a YYYY-MM-DD string
meetingDateSchemaIso(rev, d) ==
    IsSome(d) /\ "str" \in DOMAIN Val(d) /\ IsDateText(Val(d).str)

\* the meetingDate key is accepted
meetingDateSchema(rev, d) ==
    CASE rev = "fileName" -> TRUE
      [] rev = "models" -> d = None \/ IsSome(coerceDate(Val(d)))
      [] rev = "string" -> IsSome(d) /\ "str" \in DOMAIN Val(d)

\* z.enum(["SLUUG", "STLLUG"])
meetingTypeSchema(t) == t \in {<<"S", "L", "U", "U", "G">>, <<"S", "T", "L", "L", "U", "G">>}

\* the meetingType key is accepted
meetingTypeAccepted(rev, t) ==
    CASE rev = "fileName" -> TRUE
      [] rev = "models" -> t = None \/ meetingTypeSchema(Val(t))
      [] rev = "string" -> IsSome(t) /\ meetingTypeSchema(Val(t))

\* meetingSchema.parse does not throw
meetingSchemaAccepts(rev, json) ==
    /\ meetingSchema(json)
    /\ meetingDateSchema(rev, json.meetingDate)
    /\ meetingTypeAccepted(rev, json.meetingType)
    /\ \A i \in 1..Len(Val(json.presentations)) :
            presentationSchema(Val(json.presentations)[i])

\* the keys of each revision of the schemas; z.object drops every other key
MeetingKeys(rev) ==
    {"presentations", "meetupUrl", "youtubeUrl", "image"}
    \cup (IF rev = "fileName" THEN {} ELSE {"meetingDate", "meetingType"})
    \cup (IF rev = "string" THEN {"youtubeTitle"} ELSE {"youtubeTitles"})
PresentationKeys(rev) ==
    {"title", "presenterNames", "abstract", "references", "tags"}
    \cup (IF rev = "string" THEN {"tweet"} ELSE {"tweets"})

\* a parse that loses the meetupUrl
KeepNoUrl(keys, key, v) == IF key \in keys /\ key # "meetupUrl" THEN v ELSE None

\* the value of a key in the parsed object: undefined for a key the schema
\* does not have
Keep(keys, key, v) == IF key \in keys THEN v ELSE None

presentationSchemaParse(rev, p) ==
    [title |-> p.title, presenterNames |-> p.presenterNames, abstract |-> p.abstract,
     references |-> Keep(PresentationKeys(rev), "references", p.references),
     tags |-> Keep(PresentationKeys(rev), "tags", p.tags),
     tweets |-> Keep(PresentationKeys(rev), "tweets", p.tweets),
     tweet |-> Keep(PresentationKeys(rev), "tweet", p.tweet)]

\* the object meetingSchema.parse returns for an accepted input
meetingSchemaParse(rev, json) ==
    [meetingDate |-> IF rev = "models" /\ IsSome(json.meetingDate)
                     THEN coerceDate(Val(json.meetingDate))
                     ELSE Keep(MeetingKeys(rev), "meetingDate", json.meetingDate),
     meetingType |-> Keep(MeetingKeys(rev), "meetingType", json.meetingType),
     presentations |-> Some([i \in 1..Len(Val(json.presentations)) |->
                            presentationSchemaParse(rev, Val(json.presentations)[i])]),
     meetupUrl |-> Keep(MeetingKeys(rev), "meetupUrl", json.meetupUrl),
     youtubeUrl |-> Keep(MeetingKeys(rev), "youtubeUrl", json.youtubeUrl),
     youtubeTitles |-> Keep(MeetingKeys(rev), "youtubeTitles", json.youtubeTitles),
     youtubeTitle |-> Keep(MeetingKeys(rev), "youtubeTitle", json.youtubeTitle),
     image |-> Keep(MeetingKeys(rev), "image", json.image)]

\* the revision of the schema each script runs on
SchemaOf(m) == IF m = "fileName" THEN "fileName" ELSE "string"

\* ---------------------------------------------------------- stage schemas
MaxTags == 3
NumTweets == 3
NumTitles == 3

tagToolParamsSchema(args) == Len(args) <= MaxTags
tweetToolParamsSchema(args) == Len(args) = NumTweets
youTubeTitleToolParamsSchema(args) == Len(args) = NumTitles

\* ------------------------------------------------------- generative API
Stages == {"tags", "tweets", "titles", "designs", "images"}
ToolStages == {"tags", "tweets", "titles"}

\* number of repeated generations for a single-presentation meeting
RepeatCount == 3

MaxSlots == IF MaxPres + 1 > RepeatCount THEN MaxPres + 1 ELSE RepeatCount
Slots == 1..MaxSlots

\* what the tool-call API may answer: an API error, an answer without a tool
\* call, or the arguments of the tool call
ApiError == [kind |-> "error"]
NoToolCall == [kind |-> "noToolCall"]
Args(a) == [kind |-> "args", args |-> a]

TagGood == << <<"A", Space, "a">> >>
TagSpaces == << <<"a", Space, "a", Space, "a">> >>
TagLeading == << <<Space, "a">> >>
TagTooMany == << <<"a">>, <<"a">>, <<"a">>, <<"a">> >>
TweetGood == << <<"a">>, <<"a", Space>>, <<"a", "a">> >>
TweetTwo == << <<"a">>, <<"a", Space>> >>
TitleGood == << <<"a">>, <<"b">>, <<"c">> >>
\* the titles answered to the i-th request of the title stage: the third one
\* tells the requests apart
SlotChar(i) == <<"1", "2", "3", "4", "5">>[i]
TitleOf(i) == [TitleGood EXCEPT ![3] = <<SlotChar(i)>>]
TitleTwo == << <<"a">>, <<"b">> >>

ToolResponses(stage) ==
    {ApiError, NoToolCall} \cup
    CASE stage = "tags" -> {Args(TagGood), Args(TagSpaces), Args(TagLeading), Args(TagTooMany)}
      [] stage = "tweets" -> {Args(TweetGood), Args(TweetTwo)}
      [] stage = "titles" -> {Args(TitleOf(i)) : i \in Slots} \cup {Args(TitleTwo)}

\* the answers to the i-th request of a stage
Answers(stage, i) ==
    IF stage = "titles" THEN {ApiError, NoToolCall, Args(TitleOf(i)), Args(TitleTwo)}
    ELSE ToolResponses(stage)

\* chat completion of the design-idea call: an API error, or a message whose
\* content may be empty
DesignResponses == {ApiError, [kind |-> "content", content |-> <<>>],
                    [kind |-> "content", content |-> <<"d">>]}

\* image generation: an API error, or data[0] with or without url and
\* revised_prompt
RevisedPrompts == { <<"A", Space, "a", ".">>, <<"a">> }
ImageResponses ==
    {ApiError, [kind |-> "noUrl"], [kind |-> "noRevisedPrompt"]} \cup
    {[kind |-> "image", revised_prompt |-> rp] : rp \in RevisedPrompts}

\* ------------------------------------------------------------------ state
VARIABLES
    input,          \* argv, environment and file contents of the run
    pc,             \* position of the top-level script
    meeting,        \* the record as enriched so far
    reqSt,          \* per stage and slot: none, inflight, ok, failed
    reqVal,         \* per stage and slot: the value of the settled branch
    designIdeas,    \* design ideas collected by the image-design stage
    fileNamePrefix, \* result of getFileNamePrefix
    download,       \* per image slot: none, pending, done, error
    disk,           \* names of the files that exist in the output directory
    diskComplete,   \* names of the files whose content is completely written
    error,          \* the error that ended the run, if any
    fn              \* scratch state for the checks of the pure functions

vars == <<input, pc, meeting, reqSt, reqVal, designIdeas, fileNamePrefix,
          download, disk, diskComplete, error, fn>>

mode == input.mode
json == input.json

NoMeeting ==
    [meetingDate |-> <<>>, meetingType |-> <<>>, presentations |-> <<>>,
     meetupUrl |-> None, youTubeTitle |-> None, youtubeTitles |-> None,
     image |-> None]

NoError == [kind |-> "none", stage |-> "none", cause |-> "none"]
NoFn == [op |-> "none"]

\* a link that ends with a space
UrlSpace == <<"u", " ">>

MeetupUrls == {None, Some(<<>>), Some(Url), Some(UrlSpace)}

MeetingJson(ps, u, d, t) ==
    [presentations |-> ps, meetupUrl |-> u, meetingDate |-> d, meetingType |-> t,
     youtubeUrl |-> None, youtubeTitles |-> None, youtubeTitle |-> None, image |-> None]

\* the records of the template-driven inputs: meetupUrl, meetingDate and
\* meetingType
TemplateRecords ==
    { <<None, DateText, SLUUG>>, <<Some(<<>>), DateText, STLLUG>>,
      <<Some(Url), SlashDate, SLUUG>>, <<Some(UrlSpace), DateText, STLLUG>> }

\* the file-name-driven inputs: file name, and meetupUrl, meetingDate and
\* meetingType of the record; one record names another date and another type
\* than its file name
FileNameRecords ==
    {<<f, None, None, None>> : f \in FileNames} \cup
    { <<DateText \o Underscore \o StllugJson, Some(<<>>), None, None>>,
      <<DateText \o Underscore \o SluugJson, Some(Url), Some(JStr(SlashDate)), Some(STLLUG)>>,
      <<DateText \o Underscore \o StllugJson, Some(UrlSpace), None, None>> }

Inputs ==
    {[mode |-> "template", argvHasPath |-> a, fileName |-> SluugJson,
      fileReadable |-> r, apiKeyPresent |-> k,
      json |-> MeetingJson(ps, rec[1], Some(JStr(rec[2])), Some(rec[3]))] :
        a \in BOOLEAN, r \in BOOLEAN, k \in BOOLEAN,
        ps \in PresentationInputs, rec \in TemplateRecords}
    \cup
    {[mode |-> "fileName", argvHasPath |-> a, fileName |-> rec[1],
      fileReadable |-> r, apiKeyPresent |-> k,
      json |-> MeetingJson(ps, rec[2], rec[3], rec[4])] :
        a \in BOOLEAN, r \in BOOLEAN, k \in BOOLEAN,
        ps \in PresentationInputs, rec \in FileNameRecords}

PipelineStart ==
    /\ pc = "start"
    /\ meeting = NoMeeting
    /\ reqSt = [s \in Stages |-> [i \in Slots |-> "none"]]
    /\ reqVal = [s \in Stages |-> [i \in Slots |-> None]]
    /\ designIdeas = <<>>
    /\ fileNamePrefix = <<>>
    /\ download = [i \in Slots |-> "none"]
    /\ disk = {}
    /\ diskComplete = {}
    /\ error = NoError

Init ==
    /\ input \in Inputs
    /\ PipelineStart
    /\ fn = NoFn

\* ----------------------------------------------------------------- helpers
N == Len(meeting.presentations)

\* a thrown error reaches the top level: the process ends
Fail(kind, stage, cause) ==
    /\ pc' = "failed"
    /\ error' = [kind |-> kind, stage |-> stage, cause |-> cause]

Issued(stage) == {i \in Slots : reqSt[stage][i] # "none"}

\* the requests a stage issues, as waves: the requests of one wave are issued
\* together, a wave is issued when the waves before it have resolved.
\* One presentation: RepeatCount sequential requests; several: one request per
\* presentation in parallel, then one for all presentations combined.
\* a fan-out that issues the combined request together with the others
FanOutTogether(n) ==
    IF n = 1 THEN [k \in 1..RepeatCount |-> {k}]
    ELSE <<1..(n + 1)>>

FanOut(n) ==
    IF n = 1 THEN [k \in 1..RepeatCount |-> {k}]
    ELSE <<1..n, {n + 1}>>

\* file-name-driven revision: generateYouTubeTitles issues a single request
TitleWavesFN == <<{1}>>

TitleWaves == IF mode = "fileName" THEN TitleWavesFN ELSE FanOut(N)
DesignWaves == FanOut(N)

Waves(stage) ==
    CASE stage \in {"tags", "tweets"} -> <<1..N>>
      [] stage = "titles" -> TitleWaves
      [] stage = "designs" -> DesignWaves
      [] stage = "images" -> <<1..Len(designIdeas)>>

AllSlots(stage) == UNION {Waves(stage)[k] : k \in 1..Len(Waves(stage))}

\* a join that resolves with the first resolved branch
PromiseAny(stage, slots) == \E i \in slots : reqSt[stage][i] = "ok"

\* `await Promise.all(...)` (or `await` of one call) resolves: every awaited
\* branch has resolved
PromiseAll(stage, slots) == \A i \in slots : reqSt[stage][i] = "ok"

\* the first wave of the stage not yet issued, 0 when all are issued
NextWave(stage) ==
    LET w == Waves(stage)
        open == {k \in 1..Len(w) : w[k] \cap Issued(stage) = {}}
    IN  IF open = {} THEN 0 ELSE CHOOSE k \in open : \A j \in open : k <= j

\* a join that also waits for the slots in which nothing was issued
StageResolvedEverySlot(stage) ==
    NextWave(stage) = 0 /\ PromiseAll(stage, Slots)

StageResolved(stage) == NextWave(stage) = 0 /\ PromiseAll(stage, AllSlots(stage))

\* an issue that sends the requests of the waves before it once more
IssueWaveAgain(stage, st) ==
    [st EXCEPT ![stage] =
        [i \in Slots |->
            IF \E k \in 1..NextWave(stage) : i \in Waves(stage)[k]
            THEN "inflight" ELSE @[i]]]

IssueWave(stage, st) ==
    [st EXCEPT ![stage] =
        [i \in Slots |-> IF i \in Waves(stage)[NextWave(stage)] THEN "inflight" ELSE @[i]]]

\* values of the resolved branches of a stage, in slot order
\* the values of the branches with the last one put first
ResultsLastFirst(stage, n) ==
    [i \in 1..n |-> Val(reqVal[stage][IF i = 1 THEN n ELSE i - 1])]

Results(stage, n) == [i \in 1..n |-> Val(reqVal[stage][i])]

\* the last array in place of the concatenation
FlatLast(ss) == IF ss = <<>> THEN <<>> ELSE ss[Len(ss)]

\* concat of the arrays, in order
RECURSIVE Flat(_)
Flat(ss) == IF ss = <<>> THEN <<>> ELSE Head(ss) \o Flat(Tail(ss))

\* ------------------------------------------------------- title decoration
SepBar == <<Space, "|", Space>>
SepDash == <<Space, Hyphen, Space>>

\* a suffix with the type only
suffixTitleWithMeetingType(generatedTitles, meetingDate, meetingType) ==
    [i \in 1..Len(generatedTitles) |-> generatedTitles[i] \o SepBar \o meetingType]

\* template-driven revision: a suffix
suffixTitleWithMeetingDateAndType(generatedTitles, meetingDate, meetingType) ==
    [i \in 1..Len(generatedTitles) |->
        generatedTitles[i] \o SepBar \o meetingType \o <<Space>> \o meetingDate]

\* file-name-driven revision: a prefix
addMeetingDateAndType(generatedTitles, meetingDate, meetingType) ==
    [i \in 1..Len(generatedTitles) |->
        meetingType \o <<Space>> \o meetingDate \o SepDash \o generatedTitles[i]]

\* ------------------------------------------------------------- file names
\* the prefix without the lower-casing of the meeting type
getFileNamePrefixAsIs(meetingDate, meetingType) ==
    meetingDate \o Underscore \o meetingType

getFileNamePrefix(meetingDate, meetingType) ==
    meetingDate \o Underscore \o toLowerCase(meetingType)

getFileNamePrefixFN(meetingDate, meetingType) ==
    IF meetingType = SLUUG
    THEN meetingDate \o Underscore \o <<"s", "l", "u", "u", "g">>
    ELSE meetingDate \o Underscore \o <<"s", "t", "l", "l", "u", "g">>

\* characters removed by the character class of the file-name regular
\* expression; DoubleQuote and Backquote stand for those two characters
DoubleQuote == "dq"
Backquote == "bq"
Punctuation == {".", ",", "/", "#", "!", "$", "%", "^", "&", "*", "'", DoubleQuote, ";", ":",
                "{", "}", "=", "_", Backquote, "~", "(", ")"}
SliceLen == 60

RECURSIVE removeChars(_, _)
removeChars(s, chars) ==
    IF s = <<>> THEN <<>>
    ELSE IF Head(s) \in chars THEN removeChars(Tail(s), chars)
    ELSE <<Head(s)>> \o removeChars(Tail(s), chars)

\* a file name without extension
ImageFileNameNoExt(prefix, revisedPrompt) ==
    prefix \o Underscore
    \o toLowerCase(replaceAll(removeChars(trimEnd(slice(revisedPrompt, SliceLen)),
                                          Punctuation), Space, Hyphen))

\* the file name of a generated image
ImageFileName(prefix, revisedPrompt) ==
    prefix \o Underscore
    \o toLowerCase(replaceAll(removeChars(trimEnd(slice(revisedPrompt, SliceLen)),
                                          Punctuation), Space, Hyphen))
    \o DotPng

\* the meeting date and type in use: from the record (template-driven) or
\* from the file name (file-name-driven)
MeetingDateInUse ==
    IF mode = "fileName" THEN Val(parseMeetingDateFromFileName(input.fileName))
    ELSE meeting.meetingDate
MeetingTypeInUse ==
    IF mode = "fileName" THEN Val(parseMeetingTypeFromFileName(input.fileName))
    ELSE meeting.meetingType

\* ------------------------------------------------------------ start of run
\* extractInputFilePathFromArgs, and in the file-name-driven revision
\* parseMeetingDateFromFileName and parseMeetingTypeFromFileName
ReadArgs ==
    /\ pc = "start"
    /\ IF ~input.argvHasPath
       THEN Fail("MissingInput", "none", "noPath")
       ELSE IF mode = "fileName" /\ ~IsSome(parseMeetingDateFromFileName(input.fileName))
       THEN Fail("FileName", "none", "date")
       ELSE IF mode = "fileName" /\ ~IsSome(parseMeetingTypeFromFileName(input.fileName))
       THEN Fail("FileName", "none", "type")
       ELSE pc' = "open" /\ error' = error
    /\ UNCHANGED <<input, meeting, reqSt, reqVal, designIdeas, fileNamePrefix,
                   download, disk, diskComplete, fn>>

\* openMeetingFile and parseMeetingFile
ParseMeetingFile ==
    /\ pc = "open"
    /\ IF ~input.fileReadable
       THEN Fail("Io", "none", "read") /\ meeting' = meeting
       ELSE IF ~meetingSchemaAccepts(SchemaOf(mode), json)
       THEN Fail("SchemaValidation", "none", "input") /\ meeting' = meeting
       ELSE LET parsed == meetingSchemaParse(SchemaOf(mode), json)
            IN  /\ pc' = "key"
                /\ error' = error
                /\ meeting' =
                     [NoMeeting EXCEPT
                        !.presentations = Val(parsed.presentations),
                        !.meetupUrl = parsed.meetupUrl,
                        !.meetingDate = IF mode = "fileName"
                                        THEN Val(parseMeetingDateFromFileName(input.fileName))
                                        ELSE Val(parsed.meetingDate).str,
                        !.meetingType = IF mode = "fileName" THEN <<>>
                                        ELSE Val(parsed.meetingType)]
    /\ UNCHANGED <<input, reqSt, reqVal, designIdeas, fileNamePrefix,
                   download, disk, diskComplete, fn>>

\* a key lookup that never throws
ApiKeyFoundAlways == TRUE

\* extractApiKeyFromEnv returns the key (does not throw)
ApiKeyFound == input.apiKeyPresent

ExtractApiKey ==
    /\ pc = "key"
    /\ IF ~ApiKeyFound
       THEN Fail("MissingCredential", "none", "noKey")
       ELSE pc' = "addTags" /\ error' = error
    /\ UNCHANGED <<input, meeting, reqSt, reqVal, designIdeas, fileNamePrefix,
                   download, disk, diskComplete, fn>>

\* Add Tags: one generateTags call per presentation, all issued together
AddTags ==
    /\ pc = "addTags"
    /\ reqSt' = IssueWave("tags", reqSt)
    /\ pc' = "tags"
    /\ UNCHANGED <<input, meeting, reqVal, designIdeas, fileNamePrefix,
                   download, disk, diskComplete, error, fn>>

\* ------------------------------------------------------ tool-call stages
\* a parse() that does not validate
zodFunctionParseSkip(stage, args) == TRUE

\* zodFunction(...).parse: schema.parse of the tool-call arguments
zodFunctionParse(stage, args) ==
    CASE stage = "tags" -> tagToolParamsSchema(args)
      [] stage = "tweets" -> tweetToolParamsSchema(args)
      [] stage = "titles" -> youTubeTitleToolParamsSchema(args)

\* the value a branch of the stage resolves to, from the parsed arguments:
\* the tool function's return value (stringified by the runner and parsed
\* back with JSON.parse, the identity on arrays of strings), post-processed
BranchValue(stage, args) ==
    CASE stage = "tags" ->
            IF mode = "fileName" THEN tagToolFN(args) ELSE tagTool(args)
      [] stage = "tweets" ->
            IF mode = "fileName" THEN addLinkToTweetsFN(args, meeting.meetupUrl)
            ELSE addLinkToTweets(args, meeting.meetupUrl)
      [] stage = "titles" ->
            IF mode = "fileName"
            THEN addMeetingDateAndType(args, MeetingDateInUse, MeetingTypeInUse)
            ELSE suffixTitleWithMeetingDateAndType(args, MeetingDateInUse, MeetingTypeInUse)

Settle(stage, i, st, v) ==
    /\ reqSt' = [reqSt EXCEPT ![stage][i] = st]
    /\ reqVal' = [reqVal EXCEPT ![stage][i] = v]

\* the answer to a generateTags / generateTweets / generateYouTubeTitle call
\* arrives.  The runner is given parse() as its argument validator; an
\* exception of parse() is taken to reject the call, like an API error.
\* A rejected branch rejects Promise.all and the top-level await throws.
RespondTool(stage, i, r) ==
    /\ stage \in ToolStages
    /\ pc = stage
    /\ reqSt[stage][i] = "inflight"
    /\ r \in Answers(stage, i)
    /\ IF r.kind = "error"
       THEN Settle(stage, i, "failed", None) /\ Fail("Generation", stage, "apiError")
       ELSE IF r.kind = "noToolCall"
       THEN Settle(stage, i, "failed", None) /\ Fail("Generation", stage, "noToolCall")
       ELSE IF ~zodFunctionParse(stage, r.args)
       THEN Settle(stage, i, "failed", None) /\ Fail("Generation", stage, "schema")
       ELSE /\ Settle(stage, i, "ok", Some(BranchValue(stage, r.args)))
            /\ UNCHANGED <<pc, error>>
    /\ UNCHANGED <<input, meeting, designIdeas, fileNamePrefix,
                   download, disk, diskComplete, fn>>

\* a join that hands the results out rotated by one
BranchOfRotated(stage, i) == reqVal[stage][(i % N) + 1]

\* the i-th element of the array Promise.all resolves to: the value of the
\* call mapped from the i-th presentation, whatever the order of completion
BranchOf(stage, i) == reqVal[stage][i]

\* { ...presentation, tags: ... }
WithTags(p, tags) == [p EXCEPT !.tags = tags]

\* an object with the title and the tweets only
WithTweetsOnly(p, tweets) == [Presentation(p.title) EXCEPT !.tweet = tweets]

\* { ...presentation, tweet: ... }
WithTweets(p, tweets) == [p EXCEPT !.tweet = tweets]

\* file-name-driven revision: { ...presentation, tweets: ... }
WithTweetsFN(p, tweets) == [p EXCEPT !.tweets = tweets]

\* Add Tweets: the tag stage is joined, meetingWithTags is built and one
\* generateTweets call per presentation is issued
AddTweets ==
    /\ pc = "tags"
    /\ StageResolved("tags")
    /\ meeting' = [meeting EXCEPT !.presentations =
            [i \in 1..N |-> WithTags(meeting.presentations[i], BranchOf("tags", i))]]
    /\ reqSt' = IssueWave("tweets", reqSt)
    /\ pc' = "tweets"
    /\ UNCHANGED <<input, reqVal, designIdeas, fileNamePrefix,
                   download, disk, diskComplete, error, fn>>

\* Add YouTube Titles: the tweet stage is joined, meetingWithTweets is built
\* and the first title request(s) are issued
AddYouTubeTitles ==
    /\ pc = "tweets"
    /\ StageResolved("tweets")
    /\ meeting' = [meeting EXCEPT !.presentations =
            [i \in 1..N |->
                IF mode = "fileName"
                THEN WithTweetsFN(meeting.presentations[i], BranchOf("tweets", i))
                ELSE WithTweets(meeting.presentations[i], BranchOf("tweets", i))]]
    /\ reqSt' = IssueWave("titles", reqSt)
    /\ pc' = "titles"
    /\ UNCHANGED <<input, reqVal, designIdeas, fileNamePrefix,
                   download, disk, diskComplete, error, fn>>

\* the next request(s) of the title or design stage: the next iteration of
\* the for loop, or the combined request after the per-presentation ones
NextRequest(stage) ==
    /\ stage \in {"titles", "designs"}
    /\ pc = stage
    /\ NextWave(stage) # 0
    /\ PromiseAll(stage, Issued(stage))
    /\ reqSt' = IssueWave(stage, reqSt)
    /\ UNCHANGED <<input, pc, meeting, reqVal, designIdeas, fileNamePrefix,
                   download, disk, diskComplete, error, fn>>

\* Add Images, first part: the title stage is done, meetingWithYouTubeTitles
\* is built and the first design-idea request(s) are issued
AddImages ==
    /\ pc = "titles"
    /\ StageResolved("titles")
    /\ LET youTubeTitles == Flat(Results("titles", Cardinality(AllSlots("titles"))))
       IN  meeting' = IF mode = "fileName"
                      THEN [meeting EXCEPT !.youtubeTitles = Some(youTubeTitles)]
                      ELSE [meeting EXCEPT !.youTubeTitle = Some(youTubeTitles)]
    /\ reqSt' = IssueWave("designs", reqSt)
    /\ pc' = "designs"
    /\ UNCHANGED <<input, reqVal, designIdeas, fileNamePrefix,
                   download, disk, diskComplete, error, fn>>

\* the answer to a generateImageDesignIdeaFromPrompt call arrives
RespondDesign(i, r) ==
    /\ pc = "designs"
    /\ reqSt["designs"][i] = "inflight"
    /\ r \in DesignResponses
    /\ IF r.kind = "error"
       THEN Settle("designs", i, "failed", None) /\ Fail("Generation", "designs", "apiError")
       ELSE IF r.content = <<>>
       THEN Settle("designs", i, "failed", None) /\ Fail("Generation", "designs", "noContent")
       ELSE Settle("designs", i, "ok", Some(r.content)) /\ UNCHANGED <<pc, error>>
    /\ UNCHANGED <<input, meeting, designIdeas, fileNamePrefix,
                   download, disk, diskComplete, fn>>

\* ------------------------------------------------------------ image stage
\* the design stage is done: designIdeas and fileNamePrefix are computed and
\* generateImage issues one images.generate request per design idea
GenerateImage ==
    /\ pc = "designs"
    /\ StageResolved("designs")
    /\ designIdeas' = Results("designs", Cardinality(AllSlots("designs")))
    /\ fileNamePrefix' = IF mode = "fileName"
                         THEN getFileNamePrefixFN(MeetingDateInUse, MeetingTypeInUse)
                         ELSE getFileNamePrefix(MeetingDateInUse, MeetingTypeInUse)
    /\ reqSt' = [reqSt EXCEPT !["images"] =
            [i \in Slots |-> IF i <= Len(designIdeas') THEN "inflight" ELSE "none"]]
    /\ pc' = "images"
    /\ UNCHANGED <<input, meeting, reqVal, download, disk, diskComplete, error, fn>>

ImageName(i) == ImageFileName(fileNamePrefix, Val(reqVal["images"][i]).alt)

\* the answer to an images.generate request arrives.  With a url and a
\* revised prompt the branch starts the download with https.get, does not
\* wait for it, and resolves to {src, alt}; the file-name-driven revision
\* has opened the file with createWriteStream before that.
RespondImage(i, r) ==
    /\ pc = "images"
    /\ reqSt["images"][i] = "inflight"
    /\ r \in ImageResponses
    /\ IF r.kind = "error"
       THEN /\ Settle("images", i, "failed", None)
            /\ Fail("Image", "images", "apiError")
            /\ UNCHANGED <<download, disk>>
       ELSE IF r.kind = "noUrl"
       THEN /\ Settle("images", i, "failed", None)
            /\ Fail("Image", "images", "noUrl")
            /\ UNCHANGED <<download, disk>>
       ELSE IF r.kind = "noRevisedPrompt"
       THEN /\ Settle("images", i, "failed", None)
            /\ Fail("Image", "images", "noRevisedPrompt")
            /\ UNCHANGED <<download, disk>>
       ELSE LET fileName == ImageFileName(fileNamePrefix, r.revised_prompt)
            IN  /\ Settle("images", i, "ok",
                          Some([src |-> DotSlash \o fileName, alt |-> r.revised_prompt]))
                /\ download' = [download EXCEPT ![i] = "pending"]
                /\ disk' = IF mode = "fileName" THEN disk \cup {fileName} ELSE disk
                /\ UNCHANGED <<pc, error>>
    /\ UNCHANGED <<input, meeting, designIdeas, fileNamePrefix, diskComplete, fn>>

\* the callback of https.get ran to its end: the image is downloaded,
\* (template-driven: resized and) written
DownloadDone(i) ==
    /\ pc # "failed"
    /\ download[i] = "pending"
    /\ download' = [download EXCEPT ![i] = "done"]
    /\ disk' = disk \cup {ImageName(i)}
    /\ diskComplete' = diskComplete \cup {ImageName(i)}
    /\ UNCHANGED <<input, pc, meeting, reqSt, reqVal, designIdeas, fileNamePrefix,
                   error, fn>>

\* the download, the resize or the write of the image failed: nothing awaits
\* or handles it, the error is an uncaught exception and ends the process
DownloadError(i) ==
    /\ pc # "failed"
    /\ download[i] = "pending"
    /\ download' = [download EXCEPT ![i] = "error"]
    /\ Fail("Download", "images", "download")
    /\ UNCHANGED <<input, meeting, reqSt, reqVal, designIdeas, fileNamePrefix,
                   disk, diskComplete, fn>>

\* generateImage has returned: meetingWithImages is built and
\* writeMeetingToFile starts to write the JSON file
MeetingWithImages ==
    /\ pc = "images"
    /\ StageResolved("images")
    /\ meeting' = [meeting EXCEPT !.image = Some(Results("images", Len(designIdeas)))]
    /\ pc' = "write"
    /\ UNCHANGED <<input, reqSt, reqVal, designIdeas, fileNamePrefix,
                   download, disk, diskComplete, error, fn>>

OutputFileName == fileNamePrefix \o DotJson

\* writeMeetingToFile: writeFile succeeds or fails
WriteMeetingToFile(ok) ==
    /\ pc = "write"
    /\ IF ok
       THEN /\ disk' = disk \cup {OutputFileName}
            /\ diskComplete' = diskComplete \cup {OutputFileName}
            /\ pc' = "done"
            /\ error' = error
       ELSE /\ Fail("Io", "write", "write")
            /\ UNCHANGED <<disk, diskComplete>>
    /\ UNCHANGED <<input, meeting, reqSt, reqVal, designIdeas, fileNamePrefix,
                   download, fn>>

Next ==
    \/ ReadArgs
    \/ ParseMeetingFile
    \/ ExtractApiKey
    \/ AddTags
    \/ \E stage \in ToolStages, i \in Slots :
          \E r \in ToolResponses(stage) : RespondTool(stage, i, r)
    \/ AddTweets
    \/ AddYouTubeTitles
    \/ \E stage \in {"titles", "designs"} : NextRequest(stage)
    \/ AddImages
    \/ \E i \in Slots, r \in DesignResponses : RespondDesign(i, r)
    \/ GenerateImage
    \/ \E i \in Slots, r \in ImageResponses : RespondImage(i, r)
    \/ \E i \in Slots : DownloadDone(i)
    \/ \E i \in Slots : DownloadError(i)
    \/ MeetingWithImages
    \/ \E ok \in BOOLEAN : WriteMeetingToFile(ok)

Spec == Init /\ [][Next]_vars

\* ------------------------------------------- the pure functions on their own
\* tagTool and addLinkToTweets applied, and applied again, to every string of
\* a bounded set; the pipeline does not run
Revisions == {"template", "fileName"}
LinkInputs == {None, Some(<<>>), Some(Url), Some(<<Space>>)}

\* the JSON documents handed to meetingSchema.parse on its own
SchemaDates == {None, Some(JStr(DateText)), Some(JStr(SlashDate)), Some(JStr(BadDate)),
                Some(JNum(0)), Some(JNull)}
SchemaTypes == {None, Some(SLUUG), Some(STLLUG), Some(<<"x">>)}
ListOf(n) == [j \in 1..n |-> <<"x">>]
SchemaTags == {None} \cup {Some(ListOf(n)) : n \in {0, 3, 4}}
SchemaTweets == {None} \cup {Some(ListOf(n)) : n \in {2, 3}}
SchemaPresentations ==
    {None, Some(<<>>)} \cup
    {Some(<<[InputPresentation(1) EXCEPT
                !.abstract = a, !.tags = tg,
                !.tweets = IF k = "tweets" THEN tw ELSE None,
                !.tweet = IF k = "tweet" THEN tw ELSE None]>>) :
        a \in {None, Some(1)}, tg \in SchemaTags, tw \in SchemaTweets,
        k \in {"tweets", "tweet"}}
SchemaJsons ==
    {[MeetingJson(ps, Some(Url), d, t) EXCEPT !.youtubeTitles = yt] :
        ps \in SchemaPresentations, d \in SchemaDates, t \in SchemaTypes,
        yt \in {None, Some(ListOf(3))}}

\* Backslash stands for the backslash character
Backslash == "bs"

\* the descriptions handed to the file name of an image: a run of letters up
\* to the place where the description is cut, then a tail of other characters
MaxTailLen == 2
TailChars == {"A", Space, "/", ".", Backslash}
PadOf(k) == [j \in 1..k |-> "a"]
Descriptions ==
    {PadOf(k) \o t : k \in {0, SliceLen - 1, SliceLen}, t \in StrsUpTo(TailChars, MaxTailLen)}
ImagePrefixes ==
    { getFileNamePrefix(DateText, SLUUG), getFileNamePrefix(SlashDate, STLLUG),
      getFileNamePrefixFN(DateText, SLUUG) }

\* path.sep and the separators path.join normalises
Platforms == {"posix", "win32"}
Separators(platform) == IF platform = "win32" THEN {"/", Backslash} ELSE {"/"}

\* path.dirname(path.join(directoryPath, fileName)) = directoryPath
DirectChild(platform, fileName) ==
    \A k \in 1..Len(fileName) : fileName[k] \notin Separators(platform)

\* the run under the assumption that every request and every download
\* answers, and with the event loop running every step that is ready
LiveInputs ==
    {x \in Inputs :
        /\ x.json.meetupUrl = None
        /\ IsSome(x.json.presentations) =>
                Len(Val(x.json.presentations)) <= MinPresentations + 1}
LiveInit ==
    /\ input \in LiveInputs
    /\ PipelineStart
    /\ fn = NoFn
LiveSpec == LiveInit /\ [][Next]_vars /\ WF_vars(Next)

FnInputs ==
    {[op |-> "schema", rev |-> v, json |-> j, step |-> 0, ok |-> FALSE, parsed |-> None] :
        v \in SchemaRevs, j \in SchemaJsons}
    \cup
    {[op |-> "tag", rev |-> v, tag |-> t, step |-> 0, once |-> <<>>, twice |-> <<>>] :
        v \in Revisions, t \in StrsUpTo(TagChars, MaxTagLen)}
    \cup
    {[op |-> "link", rev |-> v, post |-> p, link |-> l, step |-> 0, again |-> None,
      once |-> <<>>, twice |-> <<>>] :
        v \in Revisions, p \in StrsUpTo(PostChars, MaxPostLen), l \in LinkInputs}

FnImageInputs ==
    {[op |-> "image", platform |-> pf, prefix |-> px, description |-> d, step |-> 0,
      fileName |-> <<>>] :
        pf \in Platforms, px \in ImagePrefixes, d \in Descriptions}

FnInit ==
    /\ input = CHOOSE x \in Inputs : ~x.argvHasPath
    /\ PipelineStart
    /\ fn \in FnInputs \cup FnImageInputs

FnTag(rev, tag) == IF rev = "fileName" THEN tagToolFN(<<tag>>)[1] ELSE tagTool(<<tag>>)[1]
FnLink(rev, post, link) ==
    IF rev = "fileName" THEN addLinkToTweetsFN(<<post>>, link)[1]
    ELSE addLinkToTweets(<<post>>, link)[1]

FnPipelineUnchanged ==
    UNCHANGED <<input, pc, meeting, reqSt, reqVal, designIdeas, fileNamePrefix,
                download, disk, diskComplete, error>>

ApplyTagTool ==
    /\ fn.op = "tag" /\ fn.step = 0
    /\ fn' = [fn EXCEPT !.step = 1, !.once = FnTag(fn.rev, fn.tag)]
    /\ FnPipelineUnchanged

ReapplyTagTool ==
    /\ fn.op = "tag" /\ fn.step = 1
    /\ fn' = [fn EXCEPT !.step = 2, !.twice = FnTag(fn.rev, fn.once)]
    /\ FnPipelineUnchanged

ApplyAddLink ==
    /\ fn.op = "link" /\ fn.step = 0
    /\ fn' = [fn EXCEPT !.step = 1, !.once = FnLink(fn.rev, fn.post, fn.link)]
    /\ FnPipelineUnchanged

\* the operation applied again to its own result, with an empty or absent link
ReapplyEmptyLink(l) ==
    /\ fn.op = "link" /\ fn.step = 1
    /\ l \in {None, Some(<<>>)}
    /\ fn' = [fn EXCEPT !.step = 2, !.again = l, !.twice = FnLink(fn.rev, fn.once, l)]
    /\ FnPipelineUnchanged

\* meetingSchema.parse(JSON.parse(...)) on its own: it returns the parsed
\* object or throws
\* the file name generateImage computes from the prefix and the description
ApplyImageFileName ==
    /\ fn.op = "image" /\ fn.step = 0
    /\ fn' = [fn EXCEPT !.step = 1, !.fileName = ImageFileName(fn.prefix, fn.description)]
    /\ FnPipelineUnchanged

ApplyMeetingSchema ==
    /\ fn.op = "schema" /\ fn.step = 0
    /\ fn' = [fn EXCEPT !.step = 1,
                        !.ok = meetingSchemaAccepts(fn.rev, fn.json),
                        !.parsed = IF meetingSchemaAccepts(fn.rev, fn.json)
                                   THEN Some(meetingSchemaParse(fn.rev, fn.json))
                                   ELSE None]
    /\ FnPipelineUnchanged

FnNext ==
    \/ ApplyMeetingSchema
    \/ ApplyTagTool
    \/ ReapplyTagTool
    \/ ApplyAddLink
    \/ ApplyImageFileName
    \/ \E l \in {None, Some(<<>>)} : ReapplyEmptyLink(l)

FnSpec == FnInit /\ [][FnNext]_vars

\* ======================================================================
\* Properties
\* ======================================================================
StageOrder == <<"tags", "tweets", "titles", "designs", "images">>
StageIndex(stage) == CHOOSE k \in 1..5 : StageOrder[k] = stage

\* no request of the stage is in flight or failed, and the stage has issued
\* requests: one per presentation for tags and tweets
Completed(stage) ==
    /\ Issued(stage) # {}
    /\ \A i \in Slots : reqSt[stage][i] \in {"none", "ok"}
    /\ stage \in {"tags", "tweets"} => \A i \in 1..N : reqSt[stage][i] = "ok"

ImagesReturned ==
    /\ Len(designIdeas) >= 1
    /\ \A i \in 1..Len(designIdeas) : reqSt["images"][i] = "ok"

JsonWritten == OutputFileName \in disk

NoNetwork ==
    /\ \A s \in Stages : Issued(s) = {}
    /\ \A i \in Slots : download[i] = "none"

\* C1: the stages run in the order tags, social posts, video titles, image
\* design ideas, images, output write; no request of a stage is issued before
\* every request of the stage before it has completed, and the output JSON is
\* written (or being written) only after the image stage has returned.
C1_StagesInOrderAndJoined ==
    /\ \A k \in 2..5 : Issued(StageOrder[k]) # {} => Completed(StageOrder[k - 1])
    /\ (pc \in {"write", "done"} \/ JsonWritten) => ImagesReturned

C1_Witness ==
    /\ pc = "done" /\ JsonWritten /\ N = 2
    /\ \A k \in 1..5 : Issued(StageOrder[k]) # {}

\* C2: when a stage fails, nothing has been persisted in that run: neither the
\* output JSON nor any image file is in the output directory.
C2_NoOutputWhenStageFails ==
    (pc = "failed" /\ error.kind \in {"Generation", "Image"}) => disk = {}

ExpectedRequests(n) == IF n = 1 THEN 3 ELSE n + 1
C4_FanOutCounts ==
    /\ pc \in {"designs", "images", "write", "done"} =>
            Cardinality(Issued("titles")) = ExpectedRequests(N)
    /\ pc \in {"images", "write", "done"} =>
            Cardinality(Issued("designs")) = ExpectedRequests(N)

\* C5: the output JSON is never written by a run in which the download, the
\* resize or the write of a generated image failed.
C5_NoJsonWhenImageNotPersisted ==
    (\E i \in Slots : download[i] = "error") => ~JsonWritten

\* C6: an input whose presentations are missing or empty is rejected by the
\* record schema: the run fails on its input (with the schema validation
\* error once the file has been read) before any generative request is
\* issued; every record that reaches a stage has at least one presentation.
PresentationsMissingOrEmpty ==
    ~IsSome(json.presentations) \/ Len(Val(json.presentations)) = 0
InputErrors == {"MissingInput", "FileName", "Io", "SchemaValidation"}
InputRead ==
    /\ input.argvHasPath
    /\ mode = "fileName" => /\ IsSome(parseMeetingDateFromFileName(input.fileName))
                            /\ IsSome(parseMeetingTypeFromFileName(input.fileName))
    /\ input.fileReadable
C6_EmptyPresentationsRejected ==
    /\ PresentationsMissingOrEmpty =>
        /\ ~meetingSchema(json)
        /\ pc \in {"start", "open", "failed"}
        /\ \A s \in Stages : Issued(s) = {}
        /\ pc = "failed" => error.kind \in InputErrors
        /\ (pc = "failed" /\ InputRead) => error.kind = "SchemaValidation"
    /\ (pc \notin {"start", "open", "failed"} \/ \E s \in Stages : Issued(s) # {})
        => Len(meeting.presentations) >= 1

C6_Witness ==
    /\ pc = "failed" /\ error.kind = "SchemaValidation"
    /\ IsSome(json.presentations) /\ Len(Val(json.presentations)) = 0

\* C7 as stated: without the API key the run fails with the configuration
\* error and no network request is issued.
C7_Original ==
    ~input.apiKeyPresent =>
        /\ NoNetwork
        /\ pc = "failed" => error.kind = "MissingCredential"

\* C7 as amended: without the API key no network request is issued at any
\* point and the run does not get past the key check; it fails with the
\* configuration error when the input was read and validated, and with the
\* input error raised before the key check otherwise.
InputAccepted == InputRead /\ ~PresentationsMissingOrEmpty
C7_NoKeyNoNetwork ==
    ~input.apiKeyPresent =>
        /\ NoNetwork
        /\ pc \in {"start", "open", "key", "failed"}
        /\ pc = "failed" =>
            /\ error.kind \in InputErrors \cup {"MissingCredential"}
            /\ InputAccepted <=> error.kind = "MissingCredential"

C7_Witness ==
    ~input.apiKeyPresent /\ pc = "failed" /\ error.kind = "MissingCredential"

\* C8: tagTool is idempotent: applied to its own result it gives that result.
C8_TagToolIdempotent ==
    (fn.op = "tag" /\ fn.step = 2) => fn.twice = fn.once

\* C9: after the tag stage every presentation has at most 3 tags, each of
\* them lower-case, without leading or trailing whitespace and without a
\* space character.
WellFormedTag(t) ==
    /\ toLowerCase(t) = t
    /\ t # <<>> => ~IsWhitespace(t[1]) /\ ~IsWhitespace(t[Len(t)])
    /\ \A j \in 1..Len(t) : t[j] # Space
C9_TagsWellFormed ==
    pc \in {"tweets", "titles", "designs", "images", "write", "done"} =>
        \A i \in 1..N :
            /\ IsSome(meeting.presentations[i].tags)
            /\ Len(Val(meeting.presentations[i].tags)) <= 3
            /\ \A j \in 1..Len(Val(meeting.presentations[i].tags)) :
                    WellFormedTag(Val(meeting.presentations[i].tags)[j])

\* C10: addLinkToTweets gives post + " " + link with trailing whitespace
\* trimmed; with an empty or absent link it gives the post with trailing
\* whitespace trimmed, and applied again with an empty or absent link it
\* leaves the post unchanged.
ExpectedPost(p, l) ==
    IF IsSome(l) /\ Val(l) # <<>>
    THEN trimEnd(p \o <<Space>> \o Val(l))
    ELSE trimEnd(p)
C10_AddLinkIsPureAppend ==
    fn.op = "link" =>
        /\ fn.step >= 1 => fn.once = ExpectedPost(fn.post, fn.link)
        /\ fn.step = 2 => fn.twice = fn.once

\* the social posts of presentation i: the script writes the key `tweet`
\* (template-driven) or `tweets` (file-name-driven)
Posts(i) ==
    IF mode = "fileName" THEN meeting.presentations[i].tweets
    ELSE meeting.presentations[i].tweet
AfterTweets == pc \in {"titles", "designs", "images", "write", "done"}

TitleList == IF mode = "fileName" THEN meeting.youtubeTitles ELSE meeting.youTubeTitle
AfterTitles == pc \in {"designs", "images", "write", "done"}

Contains(s, sub) ==
    \E k \in 0..(Len(s) - Len(sub)) : SubSeq(s, k + 1, k + Len(sub)) = sub
startsWith(s, prefix) == Len(s) >= Len(prefix) /\ SubSeq(s, 1, Len(prefix)) = prefix

\* C13 as stated: every video title of the record contains the meeting's type
\* and the meeting's date in YYYY-MM-DD form (every input is a meeting of
\* 2024-02-14), for every input the record schema accepts.
C13_Original ==
    AfterTitles =>
        \A j \in 1..Len(Val(TitleList)) :
            /\ Contains(Val(TitleList)[j], MeetingTypeInUse)
            /\ Contains(Val(TitleList)[j], DateText)

\* C13 as amended: every generated video title carries the meeting's type
\* (SLUUG or STLLUG) and the meeting's date as the script holds it: the
\* template-driven revision ends every title with " | TYPE DATE", DATE being
\* the meetingDate string of the record as written there; the
\* file-name-driven revision starts every title with "TYPE DATE - ", DATE
\* being the YYYY-MM-DD date of the file name.  The date in the title is in
\* YYYY-MM-DD form when the record (the file name) has it in that form.
C13_TitlesCarryTypeAndDate ==
    AfterTitles =>
        /\ MeetingTypeInUse \in {SLUUG, STLLUG}
        /\ mode = "template" => MeetingDateInUse = Val(json.meetingDate).str
        /\ mode = "fileName" =>
                MeetingDateInUse = slice(input.fileName, 10) /\ IsDateText(MeetingDateInUse)
        /\ \A j \in 1..Len(Val(TitleList)) :
            IF mode = "fileName"
            THEN startsWith(Val(TitleList)[j],
                            MeetingTypeInUse \o <<Space>> \o MeetingDateInUse \o SepDash)
            ELSE endsWith(Val(TitleList)[j],
                          SepBar \o MeetingTypeInUse \o <<Space>> \o MeetingDateInUse)

C13_Witness ==
    /\ pc = "done" /\ mode = "template" /\ json.meetingDate = Some(JStr(SlashDate))
    /\ Len(Val(TitleList)) >= 3

\* C14: the image list of the record has one entry per design idea, in the
\* order of the design ideas (3 entries for one presentation, N+1 for N>1
\* presentations); entry i is the result of the image request of design idea
\* i, its src ends in .png and its alt is the non-empty revised prompt the
\* API returned for that request.
C14_ImagesMatchDesignIdeas ==
    pc \in {"write", "done"} =>
        /\ IsSome(meeting.image)
        /\ Len(Val(meeting.image)) = Len(designIdeas)
        /\ Len(designIdeas) = ExpectedRequests(N)
        /\ \A i \in 1..Len(designIdeas) :
            /\ Val(meeting.image)[i] = Val(reqVal["images"][i])
            /\ endsWith(Val(meeting.image)[i].src, DotPng)
            /\ Val(meeting.image)[i].alt # <<>>
            /\ Val(meeting.image)[i].alt \in RevisedPrompts

C14_Witness ==
    /\ pc = "done" /\ N = 2 /\ Len(Val(meeting.image)) = 3
    /\ Val(meeting.image)[1].alt # Val(meeting.image)[2].alt

\* the fields of a presentation that come from the input
InputFields(p) ==
    [title |-> p.title, presenterNames |-> p.presenterNames, abstract |-> p.abstract,
     references |-> p.references]

\* C15: every stage only sets its own field.  The tag stage leaves the other
\* fields of every presentation unchanged; the social-post stage leaves
\* title, presenterNames, abstract, references and tags of every presentation
\* unchanged; the video-title stage leaves the presentations unchanged; the
\* image stage leaves the presentations and the video titles unchanged.
C15_StagesOnlyAdd ==
    [][ /\ (pc = "tags" /\ pc' = "tweets") =>
            /\ Len(meeting'.presentations) = Len(meeting.presentations)
            /\ \A i \in 1..N :
                /\ InputFields(meeting'.presentations[i]) = InputFields(meeting.presentations[i])
                /\ meeting'.presentations[i].tweet = meeting.presentations[i].tweet
                /\ meeting'.presentations[i].tweets = meeting.presentations[i].tweets
        /\ (pc = "tweets" /\ pc' = "titles") =>
            /\ Len(meeting'.presentations) = Len(meeting.presentations)
            /\ \A i \in 1..N :
                /\ InputFields(meeting'.presentations[i]) = InputFields(meeting.presentations[i])
                /\ meeting'.presentations[i].tags = meeting.presentations[i].tags
        /\ (pc = "titles" /\ pc' = "designs") =>
            meeting'.presentations = meeting.presentations
        /\ (pc = "images" /\ pc' = "write") =>
            /\ meeting'.presentations = meeting.presentations
            /\ meeting'.youTubeTitle = meeting.youTubeTitle
            /\ meeting'.youtubeTitles = meeting.youtubeTitles
        /\ pc' \in {"tweets", "titles", "designs", "write"} =>
            /\ meeting'.meetupUrl = meeting.meetupUrl
            /\ meeting'.meetingDate = meeting.meetingDate
            /\ meeting'.meetingType = meeting.meetingType ]_vars

C15_Witness ==
    /\ pc = "done" /\ N = 2 /\ IsSome(meeting.image) /\ IsSome(TitleList)
    /\ meeting.presentations[1].references = Some(<<Link>>)
    /\ \A i \in 1..N : IsSome(meeting.presentations[i].tags) /\ IsSome(Posts(i))

\* C16: every field of the input record is in the output record with the
\* value it has in the input, tags already supplied in the input included.
C16_InputFieldsKept ==
    pc \in {"write", "done"} =>
        /\ meeting.meetupUrl = json.meetupUrl
        /\ \A i \in 1..N :
            /\ InputFields(meeting.presentations[i]) = InputFields(Val(json.presentations)[i])
            /\ IsSome(Val(json.presentations)[i].tags) =>
                    meeting.presentations[i].tags = Val(json.presentations)[i].tags

\* a meetingDate that is a string in YYYY-MM-DD format
IsoDateString(d) == IsSome(d) /\ "str" \in DOMAIN Val(d) /\ IsDateText(Val(d).str)

\* the meetingType is one the revision of the schema takes
TypeFits(rev, t) ==
    CASE rev = "fileName" -> TRUE
      [] rev = "models" -> t \in {None, Some(SLUUG), Some(STLLUG)}
      [] rev = "string" -> t \in {Some(SLUUG), Some(STLLUG)}

\* at least one presentation, every presentation with its required fields
PresentationsFit(j) ==
    /\ IsSome(j.presentations)
    /\ Len(Val(j.presentations)) >= 1
    /\ \A i \in 1..Len(Val(j.presentations)) : IsSome(Val(j.presentations)[i].abstract)

\* a valid meeting JSON of the revision: at least one presentation, only keys
\* of that revision, a YYYY-MM-DD meetingDate and a meetingType where the
\* revision has them (both may be absent where they are optional)
ValidMeetingJson(rev, j) ==
    /\ PresentationsFit(j)
    /\ \A i \in 1..Len(Val(j.presentations)) :
            IF rev = "string" THEN Val(j.presentations)[i].tweets = None
            ELSE Val(j.presentations)[i].tweet = None
    /\ IF rev = "string" THEN j.youtubeTitles = None ELSE j.youtubeTitle = None
    /\ rev = "fileName" => j.meetingDate = None /\ j.meetingType = None
    /\ rev = "models" => j.meetingDate = None \/ IsoDateString(j.meetingDate)
    /\ rev = "string" => IsoDateString(j.meetingDate)
    /\ TypeFits(rev, j.meetingType)

C18_Original ==
    (fn.op = "schema" /\ fn.step = 1 /\ fn.ok) => IsoDateString(fn.json.meetingDate)

\* C18 as amended: validation does not check the format of meetingDate.  With
\* the other keys acceptable, the revision of src/src/models.ts accepts a
\* missing meetingDate and every value the Date constructor makes a valid
\* date of (a YYYY-MM-DD string, a string in another date format, a number,
\* null) and rejects only a value that gives an invalid date; the revision
\* with z.string() accepts every string and rejects a missing meetingDate and
\* a value of another type; the revision of the file-name-driven script has
\* no meetingDate key and accepts whatever is there.
C18_DateAcceptance ==
    (fn.op = "schema" /\ fn.step = 1
        /\ PresentationsFit(fn.json) /\ TypeFits(fn.rev, fn.json.meetingType)) =>
        (fn.ok <=>
            CASE fn.rev = "fileName" -> TRUE
              [] fn.rev = "models" -> fn.json.meetingDate # Some(JStr(BadDate))
              [] fn.rev = "string" ->
                    fn.json.meetingDate \in
                        {Some(JStr(DateText)), Some(JStr(SlashDate)), Some(JStr(BadDate))})

C18_Witness ==
    /\ fn.op = "schema" /\ fn.step = 1 /\ fn.ok /\ fn.rev = "models"
    /\ fn.json.meetingDate = Some(JStr(SlashDate))

\* C19 as stated: validation of the input enforces the cardinalities of the
\* generated fields: an input presentation with more than 3 tags, or with a
\* list of social posts that has not exactly 3 entries, is rejected.
C19_Original ==
    (fn.op = "schema" /\ fn.step = 1 /\ fn.ok) =>
        \A i \in 1..Len(Val(fn.json.presentations)) :
            /\ \A t \in Val(fn.json.presentations)[i].tags : Len(t) <= 3
            /\ \A t \in Val(fn.json.presentations)[i].tweets : Len(t) = 3
            /\ \A t \in Val(fn.json.presentations)[i].tweet : Len(t) = 3

\* C19 as amended: validation of the input does not bound the generated
\* fields: an input that is acceptable otherwise is accepted whatever the
\* number of tags and of social posts of its presentations, and the parsed
\* record keeps the tags as they are.
C19_ListsOfAnyLengthAccepted ==
    (fn.op = "schema" /\ fn.step = 1
        /\ PresentationsFit(fn.json) /\ TypeFits(fn.rev, fn.json.meetingType)
        /\ (fn.rev = "fileName" \/ IsoDateString(fn.json.meetingDate))) =>
        /\ fn.ok
        /\ \A i \in 1..Len(Val(fn.json.presentations)) :
                Val(Val(fn.parsed).presentations)[i].tags = Val(fn.json.presentations)[i].tags

C19_Witness ==
    /\ fn.op = "schema" /\ fn.step = 1 /\ fn.ok /\ fn.rev = "models"
    /\ Val(fn.json.presentations)[1].tags = Some(ListOf(4))
    /\ Val(fn.json.presentations)[1].tweets = Some(ListOf(2))
    /\ Val(Val(fn.parsed).presentations)[1].tweets = Some(ListOf(2))

\* C20: the record does not depend on the order in which the concurrent
\* calls complete: it is determined by the input and by the result of each
\* request.  The presentation at index i has the input fields of the input
\* presentation at index i, the tags of the tag request at index i and the
\* social posts of the social-post request at index i; the video titles and
\* the images are those of the requests in the order of issue.
C20_ResultIndependentOfOrder ==
    /\ (pc = "tweets" \/ AfterTweets) =>
        \A i \in 1..N :
            /\ InputFields(meeting.presentations[i]) = InputFields(Val(json.presentations)[i])
            /\ meeting.presentations[i].tags = reqVal["tags"][i]
    /\ AfterTweets => \A i \in 1..N : Posts(i) = reqVal["tweets"][i]
    /\ AfterTitles =>
        TitleList = Some(Flat([k \in 1..Cardinality(Issued("titles")) |->
                                    Val(reqVal["titles"][k])]))
    /\ pc \in {"write", "done"} =>
        meeting.image = Some([k \in 1..Len(designIdeas) |-> Val(reqVal["images"][k])])

C20_Witness ==
    /\ pc = "done" /\ N = 2
    /\ reqVal["tags"][1] # reqVal["tags"][2]
    /\ meeting.presentations[1].tags = reqVal["tags"][1]
    /\ meeting.presentations[2].tags = reqVal["tags"][2]

\* the file name ends in sluug.json, ends in stllug.json, starts with a date
NameEndsSluug ==
    endsWith(input.fileName, <<"s", "l", "u", "u", "g", ".", "j", "s", "o", "n">>)
NameEndsStllug ==
    endsWith(input.fileName, <<"s", "t", "l", "l", "u", "g", ".", "j", "s", "o", "n">>)
NameStartsWithDate ==
    Len(input.fileName) >= 10 /\ IsDateText(SubSeq(input.fileName, 1, 10))
TypeOfName == IF NameEndsSluug THEN SLUUG ELSE STLLUG

C21_RejectedWitness ==
    /\ mode = "fileName" /\ pc = "failed" /\ error.kind = "FileName"
    /\ NameStartsWithDate /\ ~NameEndsSluug /\ ~NameEndsStllug

\* path.dirname of a path relative to the output directory
LastSlash(path) ==
    LET at == {k \in 1..Len(path) : path[k] = "/"}
    IN  IF at = {} THEN 0 ELSE CHOOSE k \in at : \A j \in at : j <= k
Dirname(path) == SubSeq(path, 1, LastSlash(path) - 1)

ExpectedPrefix ==
    MeetingDateInUse \o <<"_">> \o
        (IF MeetingTypeInUse = <<"S", "L", "U", "U", "G">>
         THEN <<"s", "l", "u", "u", "g">> ELSE <<"s", "t", "l", "l", "u", "g">>)
ExpectedJsonName == ExpectedPrefix \o <<".", "j", "s", "o", "n">>

FileOfSrc(src) == SubSeq(src, 3, Len(src))

\* C23: once the output JSON is written, every file named by an image[].src
\* entry of the record has been written completely.
C23_ImagesWrittenBeforeJson ==
    JsonWritten =>
        \A j \in 1..Len(Val(meeting.image)) :
            FileOfSrc(Val(meeting.image)[j].src) \in diskComplete

SomeFailed == \E s \in Stages, i \in Slots : reqSt[s][i] = "failed"

CombinedStages == IF mode = "fileName" THEN {"designs"} ELSE {"titles", "designs"}

\* C25: with N > 1 presentations, the combined request of the video-title and
\* of the image-design stage (request N + 1) is issued only when the N
\* requests for the single presentations have all succeeded; when one of
\* them has failed the combined request is not issued.
C25_CombinedAfterAllSucceeded ==
    N > 1 =>
        \A stage \in CombinedStages :
            /\ reqSt[stage][N + 1] # "none" =>
                    \A i \in 1..N : reqSt[stage][i] = "ok"
            /\ (\E i \in 1..N : reqSt[stage][i] = "failed") =>
                    reqSt[stage][N + 1] = "none"
            /\ \A i \in Slots : i > N + 1 => reqSt[stage][i] = "none"

C25_Witness ==
    /\ N = 2 /\ mode = "template" /\ pc = "done"
    /\ reqSt["titles"][3] = "ok" /\ reqSt["designs"][3] = "ok"

C25_FailedWitness ==
    /\ N = 2 /\ pc = "failed"
    /\ reqSt["designs"][1] = "ok" /\ reqSt["designs"][2] = "failed"
    /\ reqSt["designs"][3] = "none"

TitleRequests == Cardinality(Issued("titles"))

\* the title was made from the generated text: the text comes first in the
\* template-driven revision and last in the file-name-driven one
HasGenerated(title, generated) ==
    IF mode = "fileName" THEN endsWith(title, <<"-", " ">> \o generated)
    ELSE startsWith(title, generated \o <<" ", "|">>)

C27_ImageNamesDistinct ==
    (pc \in {"write", "done"} /\ IsSome(meeting.image)) =>
        \A j, k \in 1..Len(Val(meeting.image)) :
            j # k => Val(meeting.image)[j].src # Val(meeting.image)[k].src

\* the slug of a computed image file name
SlugOf(fileName, prefix) == SubSeq(fileName, Len(prefix) + 2, Len(fileName) - 4)
ImageNamed == fn.op = "image" /\ fn.step = 1

\* the file name is <prefix>_<slug>.png and the slug has at most 60
\* characters, none of them an upper-case letter, a space, a '/' or a '.'
SlugForm ==
    ImageNamed =>
        LET slug == SlugOf(fn.fileName, fn.prefix)
        IN  /\ fn.fileName = fn.prefix \o <<"_">> \o slug \o <<".", "p", "n", "g">>
            /\ Len(slug) <= 60
            /\ Len(slug) <= Len(fn.description)
            /\ \A k \in 1..Len(slug) : slug[k] \notin {"A", " ", "/", "."}

\* C28: every image file name is <prefix>_<slug>.png with a slug of at most
\* 60 characters without upper-case letter, space, '/' and '.', and for
\* every description the image path is a direct child of the output
\* directory.
C28_ImagePathDirectChild ==
    /\ SlugForm
    /\ ImageNamed => DirectChild(fn.platform, fn.fileName)

\* the same, for the names of the images of a run
C28_RunImagesDirectChildren ==
    \A i \in Slots :
        reqSt["images"][i] = "ok" => DirectChild("posix", ImageName(i))

AllStagesCompleted == \A k \in 1..5 : Completed(StageOrder[k])
Terminated ==
    \/ pc = "done" /\ JsonWritten /\ AllStagesCompleted
    \/ pc = "failed" /\ error.kind # "none"

\* the steps of the script itself, which wait for no answer
ScriptStep ==
    \/ ReadArgs \/ ParseMeetingFile \/ ExtractApiKey \/ AddTags \/ AddTweets
    \/ AddYouTubeTitles \/ AddImages \/ GenerateImage \/ MeetingWithImages
    \/ \E stage \in {"titles", "designs"} : NextRequest(stage)
    \/ \E ok \in BOOLEAN : WriteMeetingToFile(ok)

\* a run that has not ended is waiting for a request of its stage that has
\* not answered yet, or its next step is ready: no stage waits on answered
\* requests only
NoStageStuck ==
    ~Terminated =>
        \/ pc \in Stages /\ \E i \in Slots : reqSt[pc][i] = "inflight"
        \/ ENABLED ScriptStep

\* C29: when every request and every download answers, every run ends: it
\* has written the output JSON after all stages succeeded, or it has ended
\* with an error.
C29_RunTerminates == <>Terminated

C29_Witness ==
    /\ pc = "done" /\ JsonWritten /\ AllStagesCompleted /\ N = 2
    /\ \A i \in 1..Len(designIdeas) : download[i] = "done"

====
